---- MODULE Spec2Model ----
(***************************************************************************)
(* A model of hurricane_tools/getvar.py: the GetVar variable store (a      *)
(* lazily filled cache over a netCDF dataset, with the derived fields      *)
(* 'tk', 'slp' and 'pres') and the Interpz3d vertical interpolator.        *)
(*                                                                         *)
(* numpy arrays are objects: `heap` maps an object id to the array held    *)
(* there, names and local variables hold ids, `.copy()` allocates, and the *)
(* in-place operators (+=, masked assignment, out=) rewrite the object.    *)
(* An array is [shape, data]; data maps 0-based index tuples to elements.  *)
(* Numbers are exact rationals <<numerator, denominator>>.                 *)
(***************************************************************************)
EXTENDS Integers, Sequences, FiniteSets, TLC

VARIABLES
    pc,          \* GetVar: "new" (before __init__), "ready", "failed" (__init__ raised)
    file,        \* the netCDF file on disk: [Time, variables]
    attrs,       \* names of the attributes the GetVar instance has
    ncfile,      \* self.ncfile: [open]
    timeidx,     \* self.timeidx
    _func,       \* self._func
    variables,   \* self.variables: cached name -> object id
    heap,        \* object id -> array
    reads,       \* history: reads of each dataset variable (line 142)
    klog,        \* history: the calls of the tk / slp kernels, with their inputs
    stores,      \* history: times each name was put in the cache (line 156)
    late,        \* history: the handle was used by get after ncfile.close()
    firstVal,    \* history: the value the first successful get of a name returned
    refused,     \* history: some get has failed with the unknown-variable error
    result,      \* outcome of the last call of GetVar
    ipc,         \* Interpz3d: "new" (before __init__), "ready", "failed" (__init__ raised)
    pres,        \* self.pres
    level,       \* self.level: [type, vals]
    _pres_f,     \* self._pres_f
    _lev_idx,    \* self._lev_idx
    _interpz3d_func,   \* self._interpz3d_func
    finds,       \* history: the calls of the find-level kernels
    iresult      \* outcome of the last call of Interpz3d

gvars == <<pc, file, attrs, ncfile, timeidx, _func, variables, heap, reads, klog,
           stores, late, firstVal, refused, result>>

ivars == <<ipc, pres, level, _pres_f, _lev_idx, _interpz3d_func, finds, iresult>>

vars == <<gvars, ivars>>

-----------------------------------------------------------------------------
(* Bounds *)

\* the files have 1..MaxTime times and contents numbered 0..MaxSeed
MaxTime == 2
MaxSeed == 0
\* no history counter is followed beyond MaxCount
MaxCount == 3
\* interp is called with 0..MaxVars variables
MaxVars == 2
\* the grid of the files: vertical, south-north, west-east
Grid == <<2, 2, 2>>
NZ == Grid[1]
NY == Grid[2]
NX == Grid[3]

-----------------------------------------------------------------------------
(* Exact rational arithmetic for array elements *)

Abs(x) == IF x < 0 THEN -x ELSE x

RECURSIVE Gcd(_, _)
Gcd(a, b) == IF b = 0 THEN a ELSE Gcd(b, a % b)

Rat(n, d) == LET g == Gcd(Abs(n), d) IN <<n \div g, d \div g>>

RAdd(a, b) == Rat(a[1] * b[2] + b[1] * a[2], a[2] * b[2])

RMul(a, n, d) == Rat(a[1] * n, a[2] * d)

-----------------------------------------------------------------------------
(* numpy arrays *)

RECURSIVE Idx(_)
Idx(shape) ==
    IF shape = <<>> THEN {<<>>}
    ELSE {<<i>> \o r : i \in 0..(Head(shape) - 1), r \in Idx(Tail(shape))}

Reverse(s) == [i \in 1..Len(s) |-> s[Len(s) + 1 - i]]

\* a.T
Transpose(a) ==
    [shape |-> Reverse(a.shape),
     data |-> [i \in Idx(Reverse(a.shape)) |-> a.data[Reverse(i)]]]

RECURSIVE Unsqueeze(_, _)
Unsqueeze(i, shape) ==
    IF shape = <<>> THEN <<>>
    ELSE IF Head(shape) = 1 THEN <<0>> \o Unsqueeze(i, Tail(shape))
    ELSE <<Head(i)>> \o Unsqueeze(Tail(i), Tail(shape))

\* np.squeeze(a)
Squeeze(a) ==
    LET kept == SelectSeq(a.shape, LAMBDA d : d # 1)
    IN  [shape |-> kept, data |-> [i \in Idx(kept) |-> a.data[Unsqueeze(i, a.shape)]]]

\* a + b, element by element
AddArr(a, b) ==
    [shape |-> a.shape, data |-> [i \in Idx(a.shape) |-> RAdd(a.data[i], b.data[i])]]

\* a + c
AddConst(a, c) ==
    [shape |-> a.shape, data |-> [i \in Idx(a.shape) |-> RAdd(a.data[i], <<c, 1>>)]]

\* (n / d) * a
ScaleArr(a, n, d) ==
    [shape |-> a.shape, data |-> [i \in Idx(a.shape) |-> RMul(a.data[i], n, d)]]

\* a with every element < 0 replaced by 0
ClampNeg(a) ==
    [shape |-> a.shape,
     data |-> [i \in Idx(a.shape) |-> IF a.data[i][1] < 0 THEN <<0, 1>> ELSE a.data[i]]]

\* wrf.destagger(a, -3): the mean of adjacent levels along the third axis from the end
destagger(a) ==
    LET k == Len(a.shape) - 2
        s == [a.shape EXCEPT ![k] = @ - 1]
    IN  [shape |-> s,
         data |-> [i \in Idx(s) |->
                      RMul(RAdd(a.data[i], a.data[[i EXCEPT ![k] = @ + 1]]), 1, 2)]]

\* a[t] for the time selection t (an int drops the axis, a slice keeps it)
IndexTime(a, t) ==
    IF t.kind = "int"
    THEN [shape |-> Tail(a.shape),
          data |-> [i \in Idx(Tail(a.shape)) |-> a.data[<<t.start>> \o i]]]
    ELSE LET nt == Head(a.shape)
             hi == IF t.stop < 0 THEN nt ELSE IF t.stop < nt THEN t.stop ELSE nt
             n  == IF hi > t.start THEN hi - t.start ELSE 0
             s  == <<n>> \o Tail(a.shape)
         IN  [shape |-> s,
              data |-> [i \in Idx(s) |-> a.data[<<t.start + i[1]>> \o Tail(i)]]]

NoArr == [shape |-> <<0>>, data |-> <<>>]

-----------------------------------------------------------------------------
(* The dataset *)

RawFields == {"P", "PB", "T", "QVAPOR", "PH", "PHB"}
Derived == {"tk", "slp", "pres"}
Names == RawFields \cup Derived \cup {"not_a_real_variable"}
NameSeq == <<"P", "PB", "T", "QVAPOR", "PH", "PHB", "tk", "slp", "pres",
             "not_a_real_variable">>

Base(name) ==
    CASE name = "P" -> 3 [] name = "PB" -> 50 [] name = "T" -> 7 [] name = "PH" -> 11
      [] name = "PHB" -> 20 [] OTHER -> 30

\* a field of the file, time x vertical x south-north x west-east; PH and PHB are
\* vertically staggered; QVAPOR has negative elements
DsField(name, nt, seed) ==
    LET s == <<nt, IF name \in {"PH", "PHB"} THEN NZ + 1 ELSE NZ, NY, NX>>
    IN  [shape |-> s,
         data |-> [i \in Idx(s) |->
                      IF name = "QVAPOR"
                      THEN <<((i[1] + i[2] + i[3] + i[4] + seed) % 3) - 1, 1>>
                      ELSE <<Base(name) + i[1] + 2 * i[2] + i[3] + 3 * i[4] + seed, 1>>]]

DsVarSets == {RawFields, RawFields \ {"QVAPOR"}, RawFields \cup {"tk", "pres"}}

Files ==
    {[Time |-> nt, variables |-> [n \in vs |-> DsField(n, nt, seed)]] :
        nt \in 1..MaxTime, vs \in DsVarSets, seed \in 0..MaxSeed}

\* the names callers ask get for (the other raw fields are requested by the recipes)
Requests == {"P", "QVAPOR", "tk", "slp", "pres", "not_a_real_variable"}

\* the timeidx arguments of __init__: None, an int, a slice, anything else
TimeArgs ==
    {[kind |-> "None", start |-> 0, stop |-> -1], [kind |-> "int", start |-> 0, stop |-> 0],
     [kind |-> "slice", start |-> 0, stop |-> -1],
     [kind |-> "str", start |-> 0, stop |-> -1], [kind |-> "list", start |-> 0, stop |-> -1]}

-----------------------------------------------------------------------------
(* Native kernels (fortran/f90tk, fortran/f90slp): opaque functions of their *)
(* inputs, point by point (tk) or column by column (slp).                    *)

calc_tk(f, p, theta) ==
    [shape |-> p.shape, data |-> [i \in Idx(p.shape) |-> <<f, p.data[i], theta.data[i]>>]]

\* the column of a at the horizontal point (and time) i; an input with a trailing
\* axis of length 1 is taken at its only index there
Column(a, i) ==
    LET rest == [k \in 1..(Len(a.shape) - 3) |-> IF 2 + k <= Len(i) THEN i[2 + k] ELSE 0]
    IN  [z \in 1..a.shape[3] |-> a.data[<<i[1], i[2], z - 1>> \o rest]]

dcomputeseaprs(f, ph, tk, p, qvapor) ==
    LET s == <<ph.shape[1], ph.shape[2]>> \o SubSeq(ph.shape, 4, Len(ph.shape))
    IN  [shape |-> s,
         data |-> [i \in Idx(s) |->
                      <<f, Column(ph, i), Column(tk, i), Column(p, i), Column(qvapor, i)>>]]

-----------------------------------------------------------------------------
(* One call of get works on a record m: the cache, the heap and the history, *)
(* plus err (the exception raised, if any), ret (the object last returned)   *)
(* and loc (the local variables of the recipes, each an object id).  Once an *)
(* exception is raised every later step leaves m as it is.                   *)

NoErr == [type |-> "None", arg |-> ""]

Failed(m) == m.err # NoErr

Raise(m, type, arg) == [m EXCEPT !.err = [type |-> type, arg |-> arg]]

\* a new array object
Alloc(m, a) == [m EXCEPT !.heap = Append(@, a), !.ret = Len(m.heap) + 1]

\* mutant: the copy is forgotten and the local names the cached array
copyAlias(m) == m

\* x.copy(), x the object last returned
copy(m) == IF Failed(m) THEN m ELSE Alloc(m, m.heap[m.ret])

\* v = <the object last returned>
Local(m, v) == IF Failed(m) THEN m ELSE [m EXCEPT !.loc[v] = m.ret]

\* dst += src, np.add(dst, src, out=dst)
IAdd(m, dst, src) ==
    IF Failed(m) THEN m
    ELSE [m EXCEPT !.heap[m.loc[dst]] = AddArr(m.heap[m.loc[dst]], m.heap[m.loc[src]])]

\* mutant: the negative elements are left as they are
IClampSkipped(m, dst) == m

\* dst[dst < 0] = 0
IClamp(m, dst) ==
    IF Failed(m) THEN m ELSE [m EXCEPT !.heap[m.loc[dst]] = ClampNeg(m.heap[m.loc[dst]])]

\* np.divide(dst, 9.81, out=dst)
IDivG(m, dst) ==
    IF Failed(m) THEN m ELSE [m EXCEPT !.heap[m.loc[dst]] = ScaleArr(m.heap[m.loc[dst]], 100, 981)]

\* any use of self.ncfile by get
Touch(m) == [m EXCEPT !.touched = TRUE, !.late = @ \/ ~ncfile.open]

LogKernel(m, f, args) == [m EXCEPT !.klog = Append(@, [kernel |-> f, args |-> args])]

\* a recipe starts
Run(m, var_name) == [m EXCEPT !.ran = @ \cup {var_name}]

\* mutant: the cache is never consulted
CachedNever(m, var_name) == FALSE

\* line 134: the name is in the cache
Cached(m, var_name) == var_name \in DOMAIN m.vars

\* mutant: a diagnostic name is always computed, whatever the file holds
InDatasetUnlessDerived(m, var_name) ==
    var_name \in DOMAIN file.variables /\ var_name \notin {"slp", "tk", "pres"}

\* line 140: the name is a variable of the file
InDataset(m, var_name) == var_name \in DOMAIN file.variables

\* line 142: read the variable from the file for the time selection
ReadVar(m, var_name) ==
    IF ~ncfile.open THEN Raise(m, "RuntimeError", "NetCDF: Not a valid ID")
    ELSE Alloc([m EXCEPT !.reads[var_name] = @ + 1],
               IndexTime(file.variables[var_name], timeidx))

\* mutant: the failed lookup surfaces as the dictionary's own KeyError
UnavailableKeyError(m, var_name) == Raise(m, "KeyError", var_name)

\* line 153: no such variable
Unavailable(m, var_name) == Raise(m, "ValueError", var_name)

\* mutant: the result is returned but not kept
UpdateCacheSkip(m, var_name) == m

\* mutant: the store is not skipped by an exception; what was last obtained is
\* kept under the name
UpdateCachePartial(m, var_name) ==
    IF m.ret = 0 THEN m
    ELSE [m EXCEPT !.vars = [n \in DOMAIN m.vars \cup {var_name} |->
                                IF n = var_name THEN m.ret ELSE m.vars[n]],
                   !.stores[var_name] = @ + 1]

\* line 156: self.variables[var_name] = var
UpdateCache(m, var_name) ==
    IF Failed(m) THEN m
    ELSE [m EXCEPT !.vars = [n \in DOMAIN m.vars \cup {var_name} |->
                                IF n = var_name THEN m.ret ELSE m.vars[n]],
                   !.stores[var_name] = @ + 1]

\* get and the recipes call each other (slp -> tk -> raw field)
RECURSIVE get(_, _)

\* lines 71-81
CallTk(m, func_tk) ==
    IF Failed(m) THEN m
    ELSE LET pres_tk == Squeeze(AddArr(m.heap[m.loc.tk_p], m.heap[m.loc.tk_pb]))
             theta == Squeeze(AddConst(m.heap[m.loc.tk_t], 300))
             args == <<Transpose(pres_tk), Transpose(theta)>>
         IN  Alloc(LogKernel(m, func_tk, args), Transpose(calc_tk(func_tk, args[1], args[2])))

_tk(m, func_tk) ==
    LET s1 == Local(get(m, "P"), "tk_p")
        s2 == Local(get(s1, "PB"), "tk_pb")
        s3 == Local(get(s2, "T"), "tk_t")
    IN  CallTk(s3, func_tk)

\* mutant: the factor 0.01 is left out
CallPresUnscaled(m) ==
    IF Failed(m) THEN m
    ELSE Alloc(m, AddArr(m.heap[m.loc.pres_p], m.heap[m.loc.pres_pb]))

\* line 114, once both fields are there
CallPres(m) ==
    IF Failed(m) THEN m
    ELSE Alloc(m, ScaleArr(AddArr(m.heap[m.loc.pres_p], m.heap[m.loc.pres_pb]), 1, 100))

_pres(m) ==
    LET s1 == Local(get(m, "P"), "pres_p")
        s2 == Local(get(s1, "PB"), "pres_pb")
    IN  CallPres(s2)

\* lines 98-111
CallSlp(m, func_slp) ==
    IF Failed(m) THEN m
    ELSE LET args == <<Transpose(Squeeze(destagger(m.heap[m.loc.ph]))),
                       Transpose(m.heap[m.loc.tk]),
                       Transpose(Squeeze(m.heap[m.loc.p])),
                       Transpose(Squeeze(m.heap[m.loc.qvapor]))>>
         IN  Alloc(LogKernel(m, func_slp, args),
                   Transpose(dcomputeseaprs(func_slp, args[1], args[2], args[3], args[4])))

_slp(m, func_slp) ==
    LET s1 == Local(copy(get(m, "P")), "p")
        s2 == Local(get(s1, "PB"), "pb")
        s3 == Local(copy(get(s2, "QVAPOR")), "qvapor")
        s4 == Local(copy(get(s3, "PH")), "ph")
        s5 == Local(get(s4, "PHB"), "phb")
        s6 == Local(get(s5, "tk"), "tk")
        s7 == IAdd(s6, "p", "pb")
        s8 == IClamp(s7, "qvapor")
        s9 == IAdd(s8, "ph", "phb")
        s10 == IDivG(s9, "ph")
    IN  CallSlp(s10, func_slp)

\* lines 146-153: the diagnostic variables
Diagnose(m, var_name) ==
    IF var_name = "slp" THEN _slp(Run(m, "slp"), _func.slp)
    ELSE IF var_name = "tk" THEN _tk(Run(m, "tk"), _func.tk)
    ELSE IF var_name = "pres" THEN _pres(Run(m, "pres"))
    ELSE Unavailable(m, var_name)

\* lines 134-158
get(m, var_name) ==
    IF Failed(m) THEN m
    ELSE IF "variables" \notin attrs THEN Raise(m, "AttributeError", "variables")
    ELSE IF Cached(m, var_name) THEN [m EXCEPT !.ret = m.vars[var_name]]
    ELSE UpdateCache(IF InDataset(m, var_name)
                     THEN ReadVar(Touch(m), var_name)
                     ELSE Diagnose(Touch(m), var_name),
                     var_name)

-----------------------------------------------------------------------------
(* GetVar: the operations *)

NoResult == [op |-> "none", name |-> "", status |-> "none", err |-> NoErr, val |-> NoArr,
             cached |-> FALSE, touched |-> FALSE, ran |-> {}, read |-> {}, ncalls |-> 0]

InitGetVar ==
    /\ pc = "new"
    /\ file \in Files
    /\ attrs = {}
    /\ ncfile = [open |-> FALSE]
    /\ timeidx = [kind |-> "None", start |-> 0, stop |-> -1]
    /\ _func = [tk |-> "", slp |-> ""]
    /\ variables = <<>>
    /\ heap = <<>>
    /\ reads = [n \in Names |-> 0]
    /\ klog = <<>>
    /\ stores = [n \in Names |-> 0]
    /\ late = FALSE
    /\ firstVal = <<>>
    /\ refused = FALSE
    /\ result = NoResult

\* mutant: the type of timeidx is not looked at
ValidTimeidxAny(t) == TRUE

\* line 34: isinstance(timeidx, (slice, int))
ValidTimeidx(t) == t.kind \in {"slice", "int"}

\* mutant: one selected time counts as a single-time dataset
SingleTimeSelected(t) == file.Time = 1 \/ t.kind = "int"

\* line 39: self.ncfile.dimensions['Time'].size == 1
SingleTime(t) == file.Time = 1

\* GetVar.__init__(filename, timeidx = t)
GetVarInit(t) ==
    /\ pc = "new"
    /\ variables' = <<>>
    /\ ncfile' = [open |-> TRUE]
    /\ IF t.kind = "None"
       THEN /\ timeidx' = [kind |-> "slice", start |-> 0, stop |-> -1]
            /\ pc' = "ready"
       ELSE IF ValidTimeidx(t)
       THEN /\ timeidx' = t
            /\ pc' = "ready"
       ELSE /\ timeidx' = timeidx
            /\ pc' = "failed"
    /\ IF pc' = "failed"
       THEN /\ attrs' = {"variables", "filename", "ncfile"}
            /\ _func' = _func
            /\ result' = [NoResult EXCEPT !.op = "init", !.name = t.kind, !.status = "error",
                             !.err = [type |-> "ValueError", arg |-> t.kind]]
       ELSE /\ attrs' = {"variables", "filename", "ncfile", "timeidx", "_func"}
            /\ _func' = IF SingleTime(t)
                        THEN [tk |-> "calc_tk", slp |-> "dcomputeseaprs"]
                        ELSE [tk |-> "calc_tk_nd", slp |-> "dcomputeseaprs_nt"]
            /\ result' = [NoResult EXCEPT !.op = "init", !.name = t.kind, !.status = "ok"]
    /\ UNCHANGED <<file, heap, reads, klog, stores, late, firstVal, refused>>
    /\ UNCHANGED ivars

\* the cached objects, renumbered in the order of NameSeq; the temporaries of
\* the call are unreachable and dropped
Compact(m) ==
    LET cs == SelectSeq(NameSeq, LAMBDA n : n \in DOMAIN m.vars)
    IN  [vars |-> [n \in DOMAIN m.vars |-> CHOOSE i \in 1..Len(cs) : cs[i] = n],
         heap |-> [i \in 1..Len(cs) |-> m.heap[m.vars[cs[i]]]]]

\* the instance as a call of get finds it
Entry ==
    [vars |-> variables, heap |-> heap, reads |-> reads, klog |-> klog, stores |-> stores,
     late |-> late, touched |-> FALSE, ran |-> {}, err |-> NoErr, ret |-> 0,
     loc |-> [v \in {"tk_p", "tk_pb", "tk_t", "pres_p", "pres_pb",
                     "p", "pb", "qvapor", "ph", "phb", "tk"} |-> 0]]

\* the instance as the call leaves it, and what the caller gets
Return(m, var_name) ==
    /\ variables' = Compact(m).vars
    /\ heap' = Compact(m).heap
    /\ reads' = m.reads
    /\ klog' = m.klog
    /\ stores' = m.stores
    /\ late' = m.late
    /\ firstVal' = IF ~Failed(m) /\ var_name \notin DOMAIN firstVal
                   THEN firstVal @@ (var_name :> m.heap[m.ret]) ELSE firstVal
    /\ refused' = (refused \/ m.err.type = "ValueError")
    /\ result' = [op |-> "get", name |-> var_name,
                  status |-> IF Failed(m) THEN "error" ELSE "ok", err |-> m.err,
                  val |-> IF Failed(m) THEN NoArr ELSE m.heap[m.ret],
                  cached |-> var_name \in DOMAIN variables,
                  touched |-> m.touched, ran |-> m.ran,
                  read |-> {n \in Names : m.reads[n] > reads[n]},
                  ncalls |-> Len(m.klog) - Len(klog)]

\* GetVar.get(var_name)
Get(var_name) ==
    /\ pc = "ready"
    /\ \A n \in Names : reads[n] < MaxCount /\ stores[n] < MaxCount
    /\ Len(klog) < MaxCount
    /\ Return(get(Entry, var_name), var_name)
    /\ UNCHANGED <<pc, file, attrs, ncfile, timeidx, _func>>
    /\ UNCHANGED ivars

\* line 62: close closes the file
ClosesFile(nc, vs) == nc

\* mutant: closing the file drops the cache too
DeletesVariablesToo(nc, vs) == vs \/ nc

\* line 65: close deletes the cache
DeletesVariables(nc, vs) == vs

\* mutant: the cache is emptied, the attribute stays
Cleared(a) == a

\* line 66: del self.variables
Deleted(a) == a \ {"variables"}

\* GetVar.close(ncfile = nc, variables = vs)
Close(nc, vs) ==
    /\ pc = "ready"
    /\ LET e1 == ClosesFile(nc, vs) /\ ~ncfile.open
           e2 == ~e1 /\ DeletesVariables(nc, vs) /\ "variables" \notin attrs
           del == DeletesVariables(nc, vs) /\ ~e1 /\ ~e2
       IN  /\ ncfile' = IF ClosesFile(nc, vs) /\ ~e1 THEN [open |-> FALSE] ELSE ncfile
           /\ attrs' = IF del THEN Deleted(attrs) ELSE attrs
           /\ variables' = IF del THEN <<>> ELSE variables
           /\ heap' = IF del THEN <<>> ELSE heap
           /\ result' = [NoResult EXCEPT
                            !.op = "close",
                            !.name = (IF nc THEN "ncfile" ELSE "") \o (IF vs THEN "variables" ELSE ""),
                            !.status = IF e1 \/ e2 THEN "error" ELSE "ok",
                            !.err = IF e1 THEN [type |-> "RuntimeError", arg |-> "NetCDF: Not a valid ID"]
                                    ELSE IF e2 THEN [type |-> "AttributeError", arg |-> "variables"]
                                    ELSE NoErr]
    /\ UNCHANGED <<pc, file, timeidx, _func, reads, klog, stores, late, firstVal, refused>>
    /\ UNCHANGED ivars

NextGetVar ==
    \/ \E t \in TimeArgs : GetVarInit(t)
    \/ \E n \in Requests : Get(n)
    \/ \E nc \in BOOLEAN, vs \in BOOLEAN : Close(nc, vs)

-----------------------------------------------------------------------------
(* Interpz3d: inputs *)

\* the grid of the pressure fields: vertical, south-north, west-east
IGrid == <<3, 1, 2>>

\* pressure against height in one column
Profiles == {<<10, 8, 6>>, <<5, 4, 3>>}

Points == Idx(<<IGrid[2], IGrid[3]>>)

\* the pressure fields: a profile for every column
PresFields ==
    {[shape |-> IGrid, data |-> [i \in Idx(IGrid) |-> <<c[<<i[2], i[3]>>][i[1] + 1], 1>>]] :
        c \in [Points -> Profiles]}

\* the variables: the height index, another field of the grid, and a field with
\* fewer levels than the pressure field
VarFields ==
    LET short == [IGrid EXCEPT ![1] = @ - 1]
    IN  {[shape |-> IGrid, data |-> [i \in Idx(IGrid) |-> <<i[1] + 1, 1>>]],
         [shape |-> IGrid, data |-> [i \in Idx(IGrid) |-> <<20 - 3 * i[1] + i[3], 1>>]],
         [shape |-> short, data |-> [i \in Idx(short) |-> <<i[1] + 1, 1>>]]}

\* the level arguments of __init__, by Python type
LevelArgs ==
    {[type |-> "int", vals |-> <<7>>], [type |-> "float", vals |-> <<9>>],
     [type |-> "ndarray", vals |-> <<7, 4>>], [type |-> "ndarray", vals |-> <<12, 9>>],
     [type |-> "list", vals |-> <<7, 4>>], [type |-> "NoneType", vals |-> <<>>]}

RECURSIVE SeqsUpTo(_, _)
SeqsUpTo(S, n) ==
    IF n = 0 THEN {<<>>}
    ELSE SeqsUpTo(S, n - 1) \cup {Append(q, x) : q \in {r \in SeqsUpTo(S, n - 1) : Len(r) = n - 1}, x \in S}

\* what a kernel may leave where it found no bracketing layer
JunkVals == {<<0, 1>>, <<-999, 1>>}

NaN == <<0, 0>>

-----------------------------------------------------------------------------
(* Native kernels (fortran/f90interp), on arrays in kernel axis order        *)
(* (west-east, south-north, vertical).                                       *)

\* the level the output point i is for
LevelAt(f, lev, i) == IF f = "interpz3d_n" \/ f = "find_level_n" THEN lev.vals[i[3] + 1] ELSE lev.vals[1]

\* the 1-based upper layer of the first pair of adjacent layers of the column
\* that brackets the level l, 0 if there is none
Bracket(p, x, y, l) ==
    LET ks == {k \in 2..p.shape[3] :
                  (p.data[<<x, y, k - 2>>][1] - l) * (p.data[<<x, y, k - 1>>][1] - l) <= 0}
    IN  IF ks = {} THEN 0 ELSE CHOOSE k \in ks : \A j \in ks : k <= j

find_level(f, pres_f, lev) ==
    LET s == <<pres_f.shape[1], pres_f.shape[2]>> \o
                 (IF f = "find_level_n" THEN <<Len(lev.vals)>> ELSE <<>>)
    IN  [shape |-> s,
         data |-> [i \in Idx(s) |-> Bracket(pres_f, i[1], i[2], LevelAt(f, lev, i))]]

\* linear interpolation in pressure between the layers k-1 and k
Between(v, p, x, y, k, l) ==
    LET p0 == p.data[<<x, y, k - 2>>][1]
        p1 == p.data[<<x, y, k - 1>>][1]
        v0 == v.data[<<x, y, k - 2>>]
        v1 == v.data[<<x, y, k - 1>>]
    IN  IF p0 = p1 THEN v0
        ELSE RAdd(v0, RMul(RAdd(v1, RMul(v0, -1, 1)), (l - p0) * (IF p1 > p0 THEN 1 ELSE -1),
                           Abs(p1 - p0)))

interpz3d(f, v_f, pres_f, lev, lev_idx, junk) ==
    [shape |-> lev_idx.shape,
     data |-> [i \in Idx(lev_idx.shape) |->
                  IF lev_idx.data[i] = 0 THEN junk
                  ELSE Between(v_f, pres_f, i[1], i[2], lev_idx.data[i], LevelAt(f, lev, i))]]

\* a kernel fails on a variable that does not have the shape of the pressure field
KernelRejects(v_f, pres_f) == v_f.shape # pres_f.shape

-----------------------------------------------------------------------------
(* Interpz3d: the operations *)

NoIResult == [op |-> "none", args |-> <<>>, status |-> "none", err |-> NoErr,
              kind |-> "none", vals |-> <<>>, raw |-> <<>>, calls |-> <<>>]

InitInterpz3d ==
    /\ ipc = "new"
    /\ pres = NoArr
    /\ level = [type |-> "NoneType", vals |-> <<>>]
    /\ _pres_f = NoArr
    /\ _lev_idx = NoArr
    /\ _interpz3d_func = ""
    /\ finds = <<>>
    /\ iresult = NoIResult

\* mutant: a list of levels is taken like an array of levels
VariantAnySequence(lev) ==
    IF lev.type \in {"int", "float"} THEN "1"
    ELSE IF lev.type \in {"ndarray", "list"} THEN "n"
    ELSE "error"

\* lines 180-187: the kernels for the type of level
Variant(lev) ==
    IF lev.type \in {"int", "float"} THEN "1"
    ELSE IF lev.type = "ndarray" THEN "n"
    ELSE "error"

\* Interpz3d.__init__(pres = p, level = lev)
Interpz3dInit(p, lev) ==
    /\ ipc = "new"
    /\ pres' = p
    /\ level' = lev
    /\ IF Variant(lev) = "error"
       THEN /\ ipc' = "failed"
            /\ iresult' = [NoIResult EXCEPT !.op = "init", !.status = "error",
                              !.err = [type |-> "ValueError", arg |-> lev.type]]
            /\ UNCHANGED <<_pres_f, _lev_idx, _interpz3d_func, finds>>
       ELSE /\ ipc' = "ready"
            /\ _interpz3d_func' = "interpz3d_" \o Variant(lev)
            /\ _pres_f' = Transpose(p)
            /\ _lev_idx' = find_level("find_level_" \o Variant(lev), Transpose(p), lev)
            /\ finds' = Append(finds, "find_level_" \o Variant(lev))
            /\ iresult' = [NoIResult EXCEPT !.op = "init", !.status = "ok"]
    /\ UNCHANGED gvars

\* line 210: the index interp works with
LevIdx == _lev_idx

\* mutant: the sentinel is not masked
MaskNaNForgotten(v_interp, lev_idx) == v_interp

\* lines 218, 227: v_interp[lev_idx == 0] = np.nan
MaskNaN(v_interp, lev_idx) ==
    [shape |-> v_interp.shape,
     data |-> [i \in Idx(v_interp.shape) |->
                  IF lev_idx.data[i] = 0 THEN NaN ELSE v_interp.data[i]]]

\* mutant: the kernel's array is returned in the kernel's axis order
ReturnedAsIs(v_interp) == v_interp

\* lines 219, 228: v_interp.T
Returned(v_interp) == Transpose(v_interp)

\* lines 216-219, 225-228: one variable through the kernel
Interpolated(v, junk) ==
    LET v_f == Transpose(v)
        raw == interpz3d(_interpz3d_func, v_f, _pres_f, level, LevIdx, junk)
    IN  [call |-> [f |-> _interpz3d_func, v |-> v_f, p |-> _pres_f, level |-> level,
                   idx |-> LevIdx],
         failed |-> KernelRejects(v_f, _pres_f),
         raw |-> IF KernelRejects(v_f, _pres_f) THEN NoArr ELSE raw,
         out |-> IF KernelRejects(v_f, _pres_f) THEN NoArr ELSE Returned(MaskNaN(raw, LevIdx))]

\* mutant: the result is always a list
OneVariableNever(var) == FALSE

\* line 215
OneVariable(var) == Len(var) = 1

\* lines 222-230: the variables in turn, until a kernel call fails
Several(rs) ==
    LET bad == {i \in DOMAIN rs : rs[i].failed}
        n == IF bad = {} THEN Len(rs) ELSE CHOOSE i \in bad : \A j \in bad : i <= j
    IN  [status |-> IF bad = {} THEN "ok" ELSE "error",
         err |-> IF bad = {} THEN NoErr ELSE [type |-> "error", arg |-> "kernel"],
         kind |-> IF bad = {} THEN "list" ELSE "none",
         vals |-> IF bad = {} THEN [i \in DOMAIN rs |-> rs[i].out] ELSE <<>>,
         raw |-> IF bad = {} THEN [i \in DOMAIN rs |-> rs[i].raw] ELSE <<>>,
         calls |-> [i \in 1..n |-> rs[i].call]]

\* lines 216-219: the only variable
Single(r) ==
    [status |-> IF r.failed THEN "error" ELSE "ok",
     err |-> IF r.failed THEN [type |-> "error", arg |-> "kernel"] ELSE NoErr,
     kind |-> IF r.failed THEN "none" ELSE "array",
     vals |-> IF r.failed THEN <<>> ELSE <<r.out>>,
     raw |-> IF r.failed THEN <<>> ELSE <<r.raw>>,
     calls |-> <<r.call>>]

interp(var, junk) ==
    IF OneVariable(var) THEN Single(Interpolated(var[1], junk))
    ELSE Several([i \in DOMAIN var |-> Interpolated(var[i], junk)])

\* mutant: interp searches the levels again at every call
InterpSearching(var, junk) ==
    /\ ipc = "ready"
    /\ iresult' = [op |-> "interp", args |-> var] @@ interp(var, junk)
    /\ finds' = Append(finds, "find_level_" \o Variant(level))
    /\ UNCHANGED <<ipc, pres, level, _pres_f, _lev_idx, _interpz3d_func>>
    /\ UNCHANGED gvars

\* Interpz3d.interp(*var)
Interp(var, junk) ==
    /\ ipc = "ready"
    /\ iresult' = [op |-> "interp", args |-> var] @@ interp(var, junk)
    /\ UNCHANGED <<ipc, pres, level, _pres_f, _lev_idx, _interpz3d_func, finds>>
    /\ UNCHANGED gvars

IdleGetVar ==
    /\ pc = "idle"
    /\ file = [Time |-> 1, variables |-> <<>>]
    /\ attrs = {}
    /\ ncfile = [open |-> FALSE]
    /\ timeidx = [kind |-> "None", start |-> 0, stop |-> -1]
    /\ _func = [tk |-> "", slp |-> ""]
    /\ variables = <<>>
    /\ heap = <<>>
    /\ reads = [n \in Names |-> 0]
    /\ klog = <<>>
    /\ stores = [n \in Names |-> 0]
    /\ late = FALSE
    /\ firstVal = <<>>
    /\ refused = FALSE
    /\ result = NoResult

NextInterpz3d ==
    \/ \E p \in PresFields, lev \in LevelArgs : Interpz3dInit(p, lev)
    \/ \E var \in SeqsUpTo(VarFields, MaxVars), junk \in JunkVals : Interp(var, junk)

\* a GetVar instance alone
InitG == InitGetVar /\ InitInterpz3d

SpecGetVar == InitG /\ [][NextGetVar]_vars

\* an Interpz3d instance alone
InitI == IdleGetVar /\ InitInterpz3d

SpecInterpz3d == InitI /\ [][NextInterpz3d]_vars

-----------------------------------------------------------------------------
(* Properties of GetVar *)

KernelCalls(f) == Cardinality({i \in DOMAIN klog : klog[i].kernel = f})

\* C1: a derived name is computed at most once per instance: it is put in the
\* cache at most once and its kernel is invoked at most once; a get of a derived
\* name that is already cached runs no recipe and no kernel, and every
\* successful get of the name returns the value the first one returned.
C1_ComputedOnce ==
    /\ \A n \in Derived : stores[n] <= 1
    /\ KernelCalls(_func.tk) <= 1
    /\ KernelCalls(_func.slp) <= 1
    /\ (result.op = "get" /\ result.name \in Derived /\ result.cached)
           => (result.status = "ok" /\ result.ran = {} /\ result.ncalls = 0)
    /\ (result.op = "get" /\ result.name \in Derived /\ result.status = "ok")
           => result.val = firstVal[result.name]

\* a second get('slp') has returned, both kernels having run once
C1_Witness ==
    /\ result.op = "get" /\ result.name = "slp" /\ result.cached /\ result.status = "ok"
    /\ KernelCalls(_func.tk) = 1 /\ KernelCalls(_func.slp) = 1

\* C2: get of a name that is not cached, not in the dataset and not derivable
\* fails with ValueError naming it and leaves the cache (names and values) as it
\* was; afterwards a get of a name that can be resolved still succeeds.
Available(n) == n \in DOMAIN variables \cup DOMAIN file.variables

Resolvable(n) ==
    \/ Available(n)
    \/ n = "pres" /\ Available("P") /\ Available("PB")
    \/ n = "tk" /\ Available("P") /\ Available("PB") /\ Available("T")
    \/ /\ n = "slp"
       /\ \A d \in {"P", "PB", "QVAPOR", "PH", "PHB"} : Available(d)
       /\ Available("tk") \/ Available("T")

C2_UnknownName ==
    [][(result'.op = "get" /\ "variables" \in attrs) =>
          /\ (~Available(result'.name) /\ result'.name \notin Derived) =>
                /\ result'.status = "error"
                /\ result'.err = [type |-> "ValueError", arg |-> result'.name]
                /\ variables' = variables
                /\ heap' = heap
          /\ (refused /\ ncfile.open /\ Resolvable(result'.name)) =>
                result'.status = "ok"]_gvars

\* an unknown name was refused with a filled cache, and a later get succeeded
C2_Witness ==
    /\ refused /\ "not_a_real_variable" \notin DOMAIN variables
    /\ result.op = "get" /\ result.status = "ok" /\ ~result.cached /\ result.name = "tk"
    /\ "pres" \in DOMAIN variables

\* C3: get never removes or rebinds a cached name and never changes the value
\* cached under it, the in-place arithmetic of the recipes included.
C3_CacheOnlyGrows ==
    [][result'.op = "get" =>
          \A n \in DOMAIN variables :
              /\ n \in DOMAIN variables'
              /\ heap'[variables'[n]] = heap[variables[n]]]_gvars

\* 'slp' was computed from P and QVAPOR found in the cache, QVAPOR holding a
\* negative element
C3_Witness ==
    /\ result.op = "get" /\ result.name = "slp" /\ result.status = "ok" /\ "slp" \in result.ran
    /\ "P" \notin result.read /\ "QVAPOR" \notin result.read
    /\ \E i \in DOMAIN heap[variables["QVAPOR"]].data : heap[variables["QVAPOR"]].data[i][1] < 0

\* C4: once get('slp') has succeeded on an instance whose dataset holds neither
\* 'slp' nor 'tk', each raw field has been read from the dataset exactly once and
\* the temperature kernel has been invoked exactly once.
C4_DependenciesOnce ==
    ("slp" \in DOMAIN firstVal /\ "slp" \notin DOMAIN file.variables
        /\ "tk" \notin DOMAIN file.variables)
    => /\ \A f \in RawFields : reads[f] = 1
       /\ KernelCalls(_func.tk) = 1

\* get('slp') came after get('tk') and get('pres'), and was computed
C4_Witness ==
    /\ result.op = "get" /\ result.name = "slp" /\ result.status = "ok" /\ ~result.cached
    /\ result.read = {"QVAPOR", "PH", "PHB"}
    /\ "pres" \in DOMAIN firstVal
    /\ \A f \in RawFields : reads[f] = 1

\* C5: close(ncfile=True, variables=False) keeps every cached name and value, and
\* a get of a cached name on the closed handle returns the cached value without
\* using the handle; close(ncfile=False, variables=True) leaves the handle as it was.
C5_CloseFlags ==
    [][/\ (result'.op = "close" /\ result'.name = "ncfile") =>
              (variables' = variables /\ heap' = heap /\ attrs' = attrs)
       /\ (result'.op = "close" /\ result'.name = "variables") => ncfile' = ncfile
       /\ (result'.op = "get" /\ ~ncfile.open /\ result'.name \in DOMAIN variables) =>
              /\ result'.status = "ok"
              /\ result'.val = heap[variables[result'.name]]
              /\ ~result'.touched]_gvars

\* a cached 'slp' was returned after the file was closed
C5_Witness ==
    /\ ~ncfile.open /\ "variables" \in attrs
    /\ result.op = "get" /\ result.name = "slp" /\ result.status = "ok" /\ result.cached

\* C6: get never uses the dataset handle (name lookup or read) after
\* close(ncfile=True).
C6_NoUseAfterClose == ~late

\* nothing has been cached, read or computed
Untouched ==
    /\ variables = <<>> /\ heap = <<>> /\ klog = <<>>
    /\ \A n \in Names : stores[n] = 0 /\ reads[n] = 0

\* C12 as stated: the constructor fails for every timeidx that is neither an int
\* nor a slice, before anything is cached and before any kernel is invoked.
C12_OnlyIntOrSlice ==
    (result.op = "init" /\ result.name \notin {"int", "slice"}) =>
        (result.status = "error" /\ pc = "failed" /\ Untouched)

\* C12, amended: the constructor fails with ValueError for every timeidx other
\* than None (the default, which selects all times), an int or a slice, and for
\* no other; the failure comes before anything is cached and before any kernel
\* is invoked.
C12_TimeidxValidated ==
    /\ result.op = "init" =>
          /\ result.status = "error" <=> result.name \notin {"None", "int", "slice"}
          /\ result.status = "error" =>
                (result.err.type = "ValueError" /\ pc = "failed" /\ "timeidx" \notin attrs)
          /\ result.status = "ok" => pc = "ready"
    /\ pc = "failed" => Untouched

\* the constructor has refused a list
C12_Witness ==
    /\ pc = "failed" /\ result.op = "init" /\ result.name = "list"
    /\ result.status = "error"

\* the value cached under n is what the file holds for the time selection
AsInFile(n) == heap[variables[n]] = IndexTime(file.variables[n], timeidx)

\* C13: where 'pres' is derived (the dataset has no variable of that name), a
\* successful get('pres') returns an array of the shape of P whose every element,
\* times 100, is the sum of the elements of P and PB there; P and PB are then in
\* the cache with the values of the file, and the call has not changed what a
\* cached P or PB held.
C13_PresRecipe ==
    /\ [](/\ result.op = "get" /\ result.name = "pres" /\ result.status = "ok"
          /\ "pres" \notin DOMAIN file.variables
          => /\ {"P", "PB"} \subseteq DOMAIN variables
             /\ AsInFile("P") /\ AsInFile("PB")
             /\ result.val.shape = heap[variables["P"]].shape
             /\ DOMAIN result.val.data = DOMAIN heap[variables["P"]].data
             /\ \A i \in DOMAIN result.val.data :
                   /\ result.val.data[i][2] > 0
                   /\ 100 * result.val.data[i][1] =
                          result.val.data[i][2] * (heap[variables["P"]].data[i][1]
                                                   + heap[variables["PB"]].data[i][1]))
    /\ [][(result'.op = "get" /\ result'.name = "pres") =>
              \A n \in {"P", "PB"} \cap DOMAIN variables :
                  n \in DOMAIN variables' /\ heap'[variables'[n]] = heap[variables[n]]]_gvars

\* 'pres' was computed over two times from a cached P, PB being read for it, and
\* is not a whole number everywhere
C13_Witness ==
    /\ result.op = "get" /\ result.name = "pres" /\ result.status = "ok"
    /\ "pres" \in result.ran /\ result.read = {"PB"}
    /\ file.Time = 2 /\ timeidx.kind = "slice"
    /\ \E i \in DOMAIN result.val.data : result.val.data[i][2] # 1

\* QVAPOR as the file holds it for the time selection, in the kernels' axis order
QvaporOfFile == Transpose(Squeeze(IndexTime(file.variables["QVAPOR"], timeidx)))

\* the calls of the sea-level-pressure kernel so far
SlpCalls == {k \in DOMAIN klog : klog[k].kernel = _func.slp}

\* C14: the mixing-ratio argument of every call of the sea-level-pressure kernel
\* holds 0 where QVAPOR is negative and the element of QVAPOR everywhere else,
\* and the QVAPOR in the cache still has the values of the file, the negative
\* ones included.
C14_ClampedForKernel ==
    /\ \A k \in SlpCalls :
          /\ DOMAIN klog[k].args[4].data = DOMAIN QvaporOfFile.data
          /\ \A i \in DOMAIN QvaporOfFile.data :
                klog[k].args[4].data[i] =
                    IF QvaporOfFile.data[i][1] < 0 THEN <<0, 1>> ELSE QvaporOfFile.data[i]
    /\ (result.op = "get" /\ result.name = "slp" /\ result.status = "ok") =>
          /\ "QVAPOR" \in DOMAIN variables
          /\ AsInFile("QVAPOR")

\* 'slp' was computed from a QVAPOR with negative and positive elements, and the
\* kernel got a 0 in place of a negative element
C14_Witness ==
    /\ result.op = "get" /\ result.name = "slp" /\ result.status = "ok" /\ result.ncalls > 0
    /\ \E k \in SlpCalls : \E i \in DOMAIN QvaporOfFile.data :
          QvaporOfFile.data[i][1] < 0 /\ klog[k].args[4].data[i] = <<0, 1>>
    /\ \E i \in DOMAIN heap[variables["QVAPOR"]].data :
          heap[variables["QVAPOR"]].data[i][1] < 0
    /\ \E i \in DOMAIN heap[variables["QVAPOR"]].data :
          heap[variables["QVAPOR"]].data[i][1] > 0

\* C15: get resolves a name in a fixed order.  A cached name is returned from the
\* cache with no use of the dataset and no recipe.  Otherwise a variable of the
\* dataset is read for the time selection and stored as read (no axis squeezed),
\* and no recipe runs, also when the name is 'tk', 'slp' or 'pres'.  Otherwise a
\* diagnostic name runs its recipe.  Otherwise get fails with the
\* unknown-variable error.
C15_ResolutionOrder ==
    [][(result'.op = "get" /\ "variables" \in attrs) =>
          LET n == result'.name
          IN  IF n \in DOMAIN variables
              THEN /\ result'.status = "ok"
                   /\ result'.val = heap[variables[n]]
                   /\ ~result'.touched /\ result'.read = {} /\ result'.ran = {}
              ELSE IF n \in DOMAIN file.variables
              THEN /\ result'.ran = {} /\ result'.ncalls = 0
                   /\ ncfile.open =>
                         /\ result'.status = "ok"
                         /\ result'.read = {n}
                         /\ result'.val = IndexTime(file.variables[n], timeidx)
                         /\ heap'[variables'[n]] = result'.val
                         /\ timeidx.kind = "slice" =>
                               Len(result'.val.shape) = Len(file.variables[n].shape)
              ELSE IF n \in {"slp", "tk", "pres"}
              THEN n \in result'.ran
              ELSE /\ result'.status = "error" /\ result'.err.type = "ValueError"
                   /\ result'.ran = {} /\ result'.read = {}]_gvars

\* a dataset variable named 'tk' was read, with its time axis of length 1, and
\* not computed
C15_Witness ==
    /\ result.op = "get" /\ result.name = "tk" /\ result.status = "ok"
    /\ result.read = {"tk"} /\ result.ran = {} /\ klog = <<>>
    /\ Len(result.val.shape) = 4 /\ result.val.shape[1] = 1

\* the kernels for a dataset of nt times
KernelsFor(nt) ==
    IF nt = 1 THEN [tk |-> "calc_tk", slp |-> "dcomputeseaprs"]
    ELSE [tk |-> "calc_tk_nd", slp |-> "dcomputeseaprs_nt"]

\* C16: a constructed GetVar holds the single-time kernels if the dataset's time
\* dimension has length 1 and the multi-time kernels otherwise, whatever the
\* time selector; the pair never changes afterwards, and every kernel call of
\* get('tk') and get('slp') is a call of the kernel of that pair.
C16_VariantFixed ==
    /\ [](/\ pc = "ready" => _func = KernelsFor(file.Time)
          /\ \A k \in DOMAIN klog :
                klog[k].kernel \in {KernelsFor(file.Time).tk, KernelsFor(file.Time).slp})
    /\ [][pc = "ready" => _func' = _func]_gvars

\* one time was selected from a dataset of two, and both multi-time kernels ran
C16_Witness ==
    /\ file.Time = 2 /\ timeidx.kind = "int"
    /\ \E k \in DOMAIN klog : klog[k].kernel = "calc_tk_nd"
    /\ \E k \in DOMAIN klog : klog[k].kernel = "dcomputeseaprs_nt"
    /\ result.op = "get" /\ result.name = "slp" /\ result.status = "ok"

\* C18: get('slp') on a dataset without QVAPOR (with P and PB in reach: the
\* handle open, or both cached) fails with the unknown-variable error naming
\* QVAPOR; 'slp' and QVAPOR are not put in the cache and no kernel runs; P and PB
\* are in the cache afterwards with the values of the file, whatever was cached
\* before is still there unchanged, and only the dependencies not yet cached
\* were read from the dataset, so that a repeated call fails the same way and
\* reads nothing.
C18_FailedDependency ==
    [][(/\ result'.op = "get" /\ result'.name = "slp"
        /\ "variables" \in attrs
        /\ "QVAPOR" \notin DOMAIN file.variables
        /\ ncfile.open \/ {"P", "PB"} \subseteq DOMAIN variables)
       => /\ result'.status = "error"
          /\ result'.err = [type |-> "ValueError", arg |-> "QVAPOR"]
          /\ DOMAIN variables' = DOMAIN variables \cup {"P", "PB"}
          /\ stores'["slp"] = 0 /\ stores'["QVAPOR"] = 0
          /\ result'.ncalls = 0
          /\ \A n \in {"P", "PB"} :
                heap'[variables'[n]] = IndexTime(file.variables[n], timeidx)
          /\ \A n \in DOMAIN variables : heap'[variables'[n]] = heap[variables[n]]
          /\ result'.read = {"P", "PB"} \ DOMAIN variables
          /\ (result.op = "get" /\ result.name = "slp") =>
                (result'.err = result.err /\ result'.read = {}
                    /\ variables' = variables /\ heap' = heap)]_gvars

\* get('slp') has failed a second time in a row, P and PB staying cached
C18_Witness ==
    /\ result.op = "get" /\ result.name = "slp" /\ result.status = "error"
    /\ result.err = [type |-> "ValueError", arg |-> "QVAPOR"]
    /\ result.read = {} /\ reads["P"] = 1 /\ reads["PB"] = 1
    /\ DOMAIN variables = {"P", "PB"}

\* C19: a close(variables=True) that returns leaves the instance without its
\* cache attribute.  From then on the attribute never comes back; every get
\* fails with AttributeError, for names cached before and for others, with the
\* handle open or closed, without reading the dataset or calling a kernel; and
\* every further close(variables=True) fails.
C19_AfterDeletion ==
    [][/\ (result'.op = "close" /\ result'.name \in {"variables", "ncfilevariables"}
              /\ result'.status = "ok") =>
             ("variables" \in attrs /\ "variables" \notin attrs')
       /\ (pc = "ready" /\ "variables" \notin attrs) =>
             /\ "variables" \notin attrs'
             /\ result'.op = "get" =>
                   /\ result'.status = "error"
                   /\ result'.err = [type |-> "AttributeError", arg |-> "variables"]
                   /\ ~result'.touched /\ result'.read = {} /\ result'.ncalls = 0
                   /\ reads' = reads /\ klog' = klog /\ stores' = stores
             /\ (result'.op = "close"
                    /\ result'.name \in {"variables", "ncfilevariables"}) =>
                   result'.status = "error"]_gvars

\* the cache was deleted with the handle left open, and a get of P, which had
\* been cached, failed
C19_Witness ==
    /\ "variables" \notin attrs /\ ncfile.open
    /\ result.op = "get" /\ result.name = "P" /\ result.status = "error"
    /\ reads["P"] = 1

\* a second close(variables=True) has failed
C19_WitnessClose ==
    /\ "variables" \notin attrs
    /\ result.op = "close" /\ result.name = "variables" /\ result.status = "error"
    /\ result.err.type = "AttributeError"

-----------------------------------------------------------------------------
(* Properties of Interpz3d *)

\* C7: the interpolation kernel is never called with a variable whose shape
\* differs from that of the stored pressure field (the mismatch is reported first).
C7_ShapeChecked ==
    \A k \in DOMAIN iresult.calls : iresult.calls[k].v.shape = iresult.calls[k].p.shape

\* the level of output point i lies outside the pressure range of its column
OutOfRange(i) ==
    LET l == LevelAt(_interpz3d_func, level, i)
        col == {pres.data[<<z, i[2], i[1]>>][1] : z \in 0..(pres.shape[1] - 1)}
    IN  (\A q \in col : q < l) \/ (\A q \in col : q > l)

\* C8: in every array interp returns, a point whose bracketing index is 0 holds
\* NaN and any other point holds the kernel's value; so a point whose level is
\* outside the pressure range of its column holds NaN.
C8_SentinelIsNaN ==
    (iresult.op = "interp" /\ iresult.status = "ok") =>
        \A k \in DOMAIN iresult.vals : \A i \in DOMAIN _lev_idx.data :
            /\ iresult.vals[k].data[Reverse(i)] =
                   IF _lev_idx.data[i] = 0 THEN NaN ELSE iresult.raw[k].data[i]
            /\ OutOfRange(i) => iresult.vals[k].data[Reverse(i)] = NaN

\* two variables were interpolated where one column holds the level and another
\* does not
C8_Witness ==
    /\ iresult.op = "interp" /\ iresult.status = "ok" /\ Len(iresult.vals) = 2
    /\ \E i \in DOMAIN _lev_idx.data : _lev_idx.data[i] = 0 /\ OutOfRange(i)
    /\ \E i \in DOMAIN _lev_idx.data : _lev_idx.data[i] # 0

\* C9: the find-level kernel runs once, in the constructor; interp never runs it
\* and never changes the stored index, and every interpolation-kernel call gets
\* the stored index, pressure field and level.
C9_IndexOnce ==
    /\ [](/\ Len(finds) <= 1
          /\ ipc = "ready" => Len(finds) = 1
          /\ \A k \in DOMAIN iresult.calls :
                /\ iresult.calls[k].idx = _lev_idx
                /\ iresult.calls[k].p = _pres_f
                /\ iresult.calls[k].level = level)
    /\ [][ipc = "ready" => (_lev_idx' = _lev_idx /\ finds' = finds)]_vars

\* an interp call of two variables made two kernel calls
C9_Witness ==
    /\ iresult.op = "interp" /\ iresult.status = "ok" /\ Len(iresult.calls) = 2
    /\ Len(finds) = 1

\* the interpolation of v, in the axis order interp returns
InterpolationOf(v) ==
    Transpose(MaskNaN(interpz3d(_interpz3d_func, Transpose(v), _pres_f, level, _lev_idx, NaN),
                      _lev_idx))

\* C10: interp of one variable returns the interpolated array itself; interp of
\* n > 1 variables returns a list of n arrays, the i-th the interpolation of the
\* i-th argument.
C10_ReturnConvention ==
    (iresult.op = "interp" /\ iresult.status = "ok") =>
        /\ Len(iresult.args) = 1 => iresult.kind = "array"
        /\ Len(iresult.args) > 1 => iresult.kind = "list"
        /\ Len(iresult.args) >= 1 =>
              /\ Len(iresult.vals) = Len(iresult.args)
              /\ \A k \in DOMAIN iresult.args :
                    iresult.vals[k] = InterpolationOf(iresult.args[k])

\* two different variables gave a list of two different arrays
C10_Witness ==
    /\ iresult.op = "interp" /\ iresult.status = "ok" /\ iresult.kind = "list"
    /\ Len(iresult.args) = 2 /\ iresult.args[1] # iresult.args[2]
    /\ iresult.vals[1] # iresult.vals[2]

\* one variable gave a bare array
C10_WitnessOne ==
    /\ iresult.op = "interp" /\ iresult.status = "ok" /\ iresult.kind = "array"
    /\ Len(iresult.args) = 1

\* the shape the interpolation kernels' output has once interp has transposed it
\* back, for the stored pressure field (nz, ny, nx) and nlev levels
ShapeOfLevels(nlev) ==
    IF level.type \in {"int", "float"} THEN <<pres.shape[2], pres.shape[3]>>
    ELSE <<nlev, pres.shape[2], pres.shape[3]>>

\* C11 as stated: every array interp returns has shape (ny, nx) for a scalar
\* level and (ny, nx, nlev) for a sequence of nlev levels.
C11_ShapeLevelsLast ==
    (iresult.op = "interp" /\ iresult.status = "ok") =>
        \A k \in DOMAIN iresult.vals :
            iresult.vals[k].shape =
                IF level.type \in {"int", "float"} THEN <<pres.shape[2], pres.shape[3]>>
                ELSE <<pres.shape[2], pres.shape[3], Len(level.vals)>>

\* C11, amended: every array interp returns has shape (ny, nx) for a scalar
\* level and (nlev, ny, nx) for an array of nlev levels: the levels come first,
\* as the vertical axis of the inputs does.
C11_OutputShape ==
    (iresult.op = "interp" /\ iresult.status = "ok") =>
        \A k \in DOMAIN iresult.vals :
            iresult.vals[k].shape = ShapeOfLevels(Len(level.vals))

\* two variables were interpolated to two levels on a grid whose three extents
\* (nlev, ny, nx) read differently in the two orders
C11_Witness ==
    /\ iresult.op = "interp" /\ iresult.status = "ok" /\ Len(iresult.vals) = 2
    /\ level.type = "ndarray" /\ Len(level.vals) = 2
    /\ <<Len(level.vals), pres.shape[2], pres.shape[3]>>
           # <<pres.shape[2], pres.shape[3], Len(level.vals)>>

\* C17 as stated: a scalar level gives the single-level pair of kernels and an
\* ordered sequence of scalars the multi-level pair.
C17_SequencePaired ==
    iresult.op = "init" =>
        /\ level.type \in {"int", "float"} =>
              (iresult.status = "ok" /\ finds = <<"find_level_1">>
                  /\ _interpz3d_func = "interpz3d_1")
        /\ level.type \in {"ndarray", "list"} =>
              (iresult.status = "ok" /\ finds = <<"find_level_n">>
                  /\ _interpz3d_func = "interpz3d_n")

\* C17, amended: the constructor takes the single-level pair of kernels for a
\* level that is an int or a float and the multi-level pair for a numpy array;
\* for a level of any other type, a list of scalars included, it fails with
\* ValueError before any find-level kernel is invoked.  The pair is never changed
\* afterwards, and every interpolation-kernel call of interp is of the variant
\* of the find-level kernel that made the index.
C17_MatchedPair ==
    /\ [](/\ iresult.op = "init" =>
                IF level.type \in {"int", "float"}
                THEN /\ iresult.status = "ok" /\ ipc = "ready"
                     /\ finds = <<"find_level_1">> /\ _interpz3d_func = "interpz3d_1"
                ELSE IF level.type = "ndarray"
                THEN /\ iresult.status = "ok" /\ ipc = "ready"
                     /\ finds = <<"find_level_n">> /\ _interpz3d_func = "interpz3d_n"
                ELSE /\ iresult.status = "error" /\ iresult.err.type = "ValueError"
                     /\ ipc = "failed" /\ finds = <<>>
          /\ \A k \in DOMAIN iresult.calls :
                \/ finds = <<"find_level_1">> /\ iresult.calls[k].f = "interpz3d_1"
                \/ finds = <<"find_level_n">> /\ iresult.calls[k].f = "interpz3d_n")
    /\ [][ipc = "ready" => _interpz3d_func' = _interpz3d_func]_vars

\* an array of levels: two variables went through the multi-level kernel
C17_Witness ==
    /\ iresult.op = "interp" /\ iresult.status = "ok" /\ Len(iresult.calls) = 2
    /\ level.type = "ndarray" /\ finds = <<"find_level_n">>
    /\ \A k \in DOMAIN iresult.calls : iresult.calls[k].f = "interpz3d_n"

\* a list of levels was refused by the constructor
C17_WitnessList ==
    /\ ipc = "failed" /\ level.type = "list" /\ finds = <<>>

====
